---- MODULE Spec2Model ----
(***************************************************************************)
(* Debuggers Hut serviced apartments: the in-memory stores (apartments,    *)
(* supplementary items, guest reward points, order history), the pricing   *)
(* functions and the booking transaction of                                *)
(* report/ProgFunA1_s4181834/ProgFunA1_s4181834.py.                        *)
(* The package src/hotel_booking keeps its own copy of the stores in a     *)
(* global StorageManager; its data_store functions are modelled as well.   *)
(*                                                                         *)
(* Money is held in cents (95.0 AUD = 9500), so every price of the program *)
(* is an integer.  Strings the code inspects character by character        *)
(* (guest names, apartment ids) are sequences of one-character strings.    *)
(***************************************************************************)
EXTENDS Integers, Sequences, FiniteSets, TLC

VARIABLES
    guests_points,    \* _guests_points: guest name -> points
    apartments,       \* _apartments, in insertion order: <<[id, rate, capacity]>>
    items,            \* _items: item id -> price (cents)
    orders_by_guest,  \* _orders_by_guest: guest name -> sequence of summaries
    pc,               \* position of the program: the menu or a step of run_booking
    booking,          \* the local variables of the running run_booking
    start,            \* the stores as they were when the running booking began
    last,             \* the latest call of a store operation and what it returned
    added,            \* per guest, the sum of the amounts of accepted add_points
    spent,            \* per guest, the sum of the amounts of accepted spend_points
    ncalls,           \* number of direct store calls made so far
    nbookings,        \* number of bookings started so far
    calc,             \* the pricing function under evaluation, its inputs and result
    storage_manager   \* hotel_booking's global StorageManager: its two dictionaries

vars == <<guests_points, apartments, items, orders_by_guest, pc, booking, start,
          last, added, spent, ncalls, nbookings, calc, storage_manager>>

stores == <<guests_points, apartments, items, orders_by_guest>>

-----------------------------------------------------------------------------
(* Bounds of the model. *)

MaxCalls == 3       \* direct calls of the ledger in a run
MaxBookings == 1    \* bookings started in a run
MaxItemQty == 1     \* units of one item a booking orders

-----------------------------------------------------------------------------
(* Characters and strings. *)

Whitespace == {" "}
Digits == {"0", "1", "2", "3", "4", "5", "6", "7", "8", "9"}
UpperLetters == <<"A", "L", "S", "U", "Z">>
LowerLetters == <<"a", "l", "s", "u", "z">>
OtherLower == {"c", "d", "e", "g", "i", "k", "n", "o", "w", "x", "y"}

RangeOf(s) == {s[i] : i \in 1..Len(s)}

\* Characters outside ASCII are written by code point: ARABIC-INDIC DIGIT THREE
\* and SUPERSCRIPT TWO (str.isdigit is true of both), LATIN SMALL LETTER E WITH
\* ACUTE (str.isalpha is true of it).
UnicodeDigits == {"U+0663", "U+00B2"}
UnicodeLetters == {"U+00E9"}

isdigit(ch) == ch \in Digits \cup UnicodeDigits
isalpha(ch) ==
    ch \in RangeOf(UpperLetters) \cup RangeOf(LowerLetters) \cup OtherLower
            \cup UnicodeLetters
isalnum(ch) == isdigit(ch) \/ isalpha(ch)

LowerChar(ch) ==
    IF \E i \in 1..Len(UpperLetters) : UpperLetters[i] = ch
    THEN LowerLetters[CHOOSE i \in 1..Len(UpperLetters) : UpperLetters[i] = ch]
    ELSE ch

lower(s) == [i \in 1..Len(s) |-> LowerChar(s[i])]

RECURSIVE lstrip(_)
lstrip(s) == IF s # <<>> /\ Head(s) \in Whitespace THEN lstrip(Tail(s)) ELSE s

RECURSIVE rstrip(_)
rstrip(s) ==
    IF s # <<>> /\ s[Len(s)] \in Whitespace THEN rstrip(SubSeq(s, 1, Len(s) - 1)) ELSE s

strip(s) == rstrip(lstrip(s))

-----------------------------------------------------------------------------
(* Dictionaries. *)

Get(d, k, default) == IF k \in DOMAIN d THEN d[k] ELSE default

Put(d, k, v) == [x \in (DOMAIN d) \cup {k} |-> IF x = k THEN v ELSE d[x]]

EmptyDict == [x \in {} |-> 0]

-----------------------------------------------------------------------------
(* Floats.  A float is its amount in cents, or NaN, the value float("nan")  *)
(* gives; every ordering comparison with NaN is false.                      *)

NaN == -999999999

float_le(a, b) == a # NaN /\ b # NaN /\ a <= b

\* float(text) of the words the callers type: the value in cents, or ValueError.
FloatWords ==
    ("12.5" :> 1250) @@ ("30" :> 3000) @@ ("0" :> 0) @@ ("-3" :> -300) @@ ("nan" :> NaN)

float(word) ==
    IF word \in DOMAIN FloatWords
    THEN [raised |-> FALSE, ret |-> FloatWords[word]]
    ELSE [raised |-> TRUE, ret |-> 0]

-----------------------------------------------------------------------------
(* CONFIG *)

U12swan == <<"U", "1", "2", "s", "w", "a", "n">>
U209duck == <<"U", "2", "0", "9", "d", "u", "c", "k">>
U49goose == <<"U", "4", "9", "g", "o", "o", "s", "e">>

APARTMENTS ==
    << [id |-> U12swan, rate |-> 9500, capacity |-> 2],
       [id |-> U209duck, rate |-> 10670, capacity |-> 2],
       [id |-> U49goose, rate |-> 14520, capacity |-> 2] >>

Alyssa == <<"A", "l", "y", "s", "s", "a">>
Luigi == <<"L", "u", "i", "g", "i">>

GUESTS_POINTS == (Alyssa :> 300) @@ (Luigi :> 32)

SUPPLEMENTARY_ITEMS ==
    ("car_park" :> 2500) @@ ("breakfast" :> 1800) @@ ("toothpaste" :> 520)
        @@ ("extra_bed" :> 3000)

-----------------------------------------------------------------------------
(* Guest names and amounts the callers of the ledger use. *)

Zed == <<"Z", "e", "d">>
EmptyName == <<>>
BlankName == <<" ">>

Names == {Alyssa, Luigi, Zed, EmptyName, BlankName}

InitialPoints(g) == Get(GUESTS_POINTS, g, 0)

NoCall == [op |-> "none"]

-----------------------------------------------------------------------------
(* DATA STORAGE: guests and points.  Each operation is a function of the   *)
(* store and its arguments giving whether it raised, the store afterwards  *)
(* and the value returned.                                                 *)

get_guest_points(gp, guest_name) == Get(gp, guest_name, 0)

\* the name tested without strip()
add_points_unstripped(gp, guest_name, earned) ==
    IF guest_name = <<>> \/ earned < 0
    THEN [raised |-> TRUE, gp |-> gp, ret |-> 0]
    ELSE LET new_total == Get(gp, guest_name, 0) + earned
         IN  [raised |-> FALSE, gp |-> Put(gp, guest_name, new_total), ret |-> new_total]

add_points(gp, guest_name, earned) ==
    IF strip(guest_name) = <<>> \/ earned < 0
    THEN [raised |-> TRUE, gp |-> gp, ret |-> 0]
    ELSE LET new_total == Get(gp, guest_name, 0) + earned
         IN  [raised |-> FALSE, gp |-> Put(gp, guest_name, new_total), ret |-> new_total]

spend_points_unchecked(gp, guest_name, points) ==
    LET balance == Get(gp, guest_name, 0)
    IN  IF points < 0
        THEN [raised |-> TRUE, gp |-> gp, ret |-> 0]
        ELSE [raised |-> FALSE, gp |-> Put(gp, guest_name, balance - points),
              ret |-> balance - points]

spend_points(gp, guest_name, points) ==
    LET balance == Get(gp, guest_name, 0)
    IN  IF points < 0 \/ points > balance
        THEN [raised |-> TRUE, gp |-> gp, ret |-> 0]
        ELSE [raised |-> FALSE, gp |-> Put(gp, guest_name, balance - points),
              ret |-> balance - points]

-----------------------------------------------------------------------------
(* DATA STORAGE: apartments and items. *)

list_apartments(aps) == aps

list_items(its) == its

get_all_guests(gp) == gp

\* The stored ids that equal apartment_id ignoring letter case, in dictionary order.
Matches(aps, apartment_id) ==
    SelectSeq(aps, LAMBDA r : lower(r.id) = lower(apartment_id))

\* the key looked up as typed
get_rate_exact(aps, apartment_id) ==
    IF \E i \in 1..Len(aps) : aps[i].id = apartment_id
    THEN aps[CHOOSE i \in 1..Len(aps) : aps[i].id = apartment_id].rate
    ELSE 0

get_rate(aps, apartment_id) ==
    IF Matches(aps, apartment_id) # <<>> THEN Matches(aps, apartment_id)[1].rate ELSE 0

get_capacity(aps, apartment_id) ==
    IF Matches(aps, apartment_id) # <<>> THEN Matches(aps, apartment_id)[1].capacity ELSE 0

\* The first index at or after i that holds no digit (Len(s) + 1 when there is none).
RECURSIVE DigitsEnd(_, _)
DigitsEnd(s, i) == IF i <= Len(s) /\ isdigit(s[i]) THEN DigitsEnd(s, i + 1) ELSE i

is_valid_apartment_id(apartment_id) ==
    IF apartment_id = <<>> \/ apartment_id[1] # "U"
    THEN FALSE
    ELSE LET i == DigitsEnd(apartment_id, 2)
         IN  IF i = 2
             THEN FALSE
             ELSE IF i > Len(apartment_id) \/ ~isalpha(apartment_id[i])
                  THEN FALSE
                  ELSE \A j \in i..Len(apartment_id) : isalnum(apartment_id[j])

\* dict[key] = value: an existing key keeps its place, a new key goes last.
PutApartment(aps, rec) ==
    IF \E i \in 1..Len(aps) : aps[i].id = rec.id
    THEN [i \in 1..Len(aps) |-> IF aps[i].id = rec.id THEN rec ELSE aps[i]]
    ELSE Append(aps, rec)

upsert_apartment(aps, apartment_id, rate, capacity) ==
    IF ~is_valid_apartment_id(apartment_id) \/ float_le(rate, 0) \/ capacity <= 0
    THEN [raised |-> TRUE, aps |-> aps]
    ELSE [raised |-> FALSE,
          aps |-> PutApartment(aps, [id |-> apartment_id, rate |-> rate,
                                     capacity |-> capacity])]

\* A line of text as upsert_items_bulk reads it: a sequence of words, blanks
\* and commas.  line.split(","): the pieces between the commas.
RECURSIVE split_commas(_, _)
split_commas(line, piece) ==
    IF line = <<>> THEN <<piece>>
    ELSE IF Head(line) = ","
         THEN <<piece>> \o split_commas(Tail(line), <<>>)
         ELSE split_commas(Tail(line), Append(piece, Head(line)))

\* p.split(): the words of a piece, blanks dropped.
split(piece) == SelectSeq(piece, LAMBDA t : t \notin Whitespace)

\* [p.strip() for p in line.split(",") if p.strip()]
pairs_of(line) == SelectSeq(split_commas(line, <<>>), LAMBDA p : strip(p) # <<>>)

\* The loop of lines 151-162 from pair i on, changes being the dictionary so far.
RECURSIVE collect_changes(_, _, _)
collect_changes(pairs, i, changes) ==
    IF i > Len(pairs) THEN [raised |-> FALSE, changes |-> changes]
    ELSE LET parts == split(pairs[i])
         IN  IF Len(parts) # 2 THEN [raised |-> TRUE, changes |-> changes]
             ELSE LET price == float(parts[2])
                  IN  IF price.raised \/ float_le(price.ret, 0)
                      THEN [raised |-> TRUE, changes |-> changes]
                      ELSE collect_changes(pairs, i + 1,
                                           Put(changes, parts[1], price.ret))

\* _items.update(changes)
update(its, changes) ==
    [k \in (DOMAIN its) \cup (DOMAIN changes) |->
        IF k \in DOMAIN changes THEN changes[k] ELSE its[k]]

\* every pair stored as soon as it is read
upsert_items_bulk_as_read(its, line) ==
    IF strip(line) = <<>>
    THEN [raised |-> TRUE, its |-> its]
    ELSE LET r == collect_changes(pairs_of(line), 1, EmptyDict)
         IN  [raised |-> r.raised, its |-> update(its, r.changes)]

upsert_items_bulk(its, line) ==
    IF strip(line) = <<>>
    THEN [raised |-> TRUE, its |-> its]
    ELSE LET r == collect_changes(pairs_of(line), 1, EmptyDict)
         IN  IF r.raised
             THEN [raised |-> TRUE, its |-> its]
             ELSE [raised |-> FALSE, its |-> update(its, r.changes)]

-----------------------------------------------------------------------------
(* DATA STORAGE: order history. *)

\* the newest summary put first
record_order_newest_first(obg, guest, summary) ==
    Put(obg, guest, <<summary>> \o Get(obg, guest, <<>>))

record_order(obg, guest, summary) == Put(obg, guest, Append(Get(obg, guest, <<>>), summary))

get_orders_for_guest(obg, guest) == Get(obg, guest, <<>>)

-----------------------------------------------------------------------------
(* CALCULATION.  Amounts are cents; a function that can raise gives        *)
(* [raised, ret].                                                          *)

Min(a, b) == IF a <= b THEN a ELSE b
Max(a, b) == IF a >= b THEN a ELSE b

\* int(x) of a quotient n / d, d > 0: truncation towards zero.
IntTrunc(n, d) == IF n >= 0 THEN n \div d ELSE -((-n) \div d)

\* the rate charged once, whatever the number of nights
compute_total_cost_per_stay(rate, nights) ==
    IF rate < 0 \/ nights < 0
    THEN [raised |-> TRUE, ret |-> 0]
    ELSE [raised |-> FALSE, ret |-> rate]

compute_total_cost(rate, nights) ==
    IF rate < 0 \/ nights < 0
    THEN [raised |-> TRUE, ret |-> 0]
    ELSE [raised |-> FALSE, ret |-> rate * nights]

\* round(amount_aud): halves go to the even integer
points_round_half_even(cents) ==
    IF cents < 0
    THEN [raised |-> TRUE, ret |-> 0]
    ELSE LET q == cents \div 100
             rem == cents % 100
         IN  [raised |-> FALSE,
              ret |-> IF rem > 50 \/ (rem = 50 /\ q % 2 = 1) THEN q + 1 ELSE q]

\* int(amount_aud + 0.5), amount_aud = cents / 100
points_round_half_up(cents) ==
    IF cents < 0
    THEN [raised |-> TRUE, ret |-> 0]
    ELSE [raised |-> FALSE, ret |-> IntTrunc(cents + 50, 100)]

RECURSIVE SumOver(_, _, _)
SumOver(keys, qty, price) ==
    IF keys = {} THEN 0
    ELSE LET k == CHOOSE x \in keys : TRUE
         IN  price[k] * qty[k] + SumOver(keys \ {k}, qty, price)

calc_items_subtotal(items_with_qty, price_lookup) ==
    IF \E iid \in DOMAIN items_with_qty : iid \notin DOMAIN price_lookup
    THEN [raised |-> TRUE, ret |-> 0]
    ELSE [raised |-> FALSE,
          ret |-> SumOver(DOMAIN items_with_qty, items_with_qty, price_lookup)]

required_extra_beds_floor(num_guests, capacity) ==
    IF num_guests <= capacity
    THEN 0
    ELSE LET deficit == num_guests - capacity
             beds == deficit \div 2
         IN  Min(2, beds)

required_extra_beds(num_guests, capacity) ==
    IF num_guests <= capacity
    THEN 0
    ELSE LET deficit == num_guests - capacity
             beds == (deficit + 1) \div 2
         IN  Min(2, beds)

apply_points_redemption_by_points_only(pre_total, guest_points, redeem_blocks) ==
    LET blocks == IF redeem_blocks < 0 THEN 0 ELSE redeem_blocks
        max_by_points == guest_points \div 100
        spend_blocks == Min(blocks, max_by_points)
        discount == spend_blocks * 1000
    IN  [final_total |-> Max(0, pre_total - discount), spent_points |-> spend_blocks * 100]

\* pre_total in cents; // is floor division, so pre_total // 10 is cents \div 1000
apply_points_redemption(pre_total, guest_points, redeem_blocks) ==
    LET blocks == IF redeem_blocks < 0 THEN 0 ELSE redeem_blocks
        max_by_points == guest_points \div 100
        max_by_total == pre_total \div 1000
        spend_blocks == Min(blocks, Min(max_by_points, max_by_total))
        discount == spend_blocks * 1000
    IN  [final_total |-> Max(0, pre_total - discount), spent_points |-> spend_blocks * 100]

-----------------------------------------------------------------------------
(* INPUT: validation of a typed date. *)

\* s.split("/")
RECURSIVE split_slash(_, _)
split_slash(s, piece) ==
    IF s = <<>> THEN <<piece>>
    ELSE IF Head(s) = "/"
         THEN <<piece>> \o split_slash(Tail(s), <<>>)
         ELSE split_slash(Tail(s), Append(piece, Head(s)))

\* str.isdigit: a non-empty string of characters that are all digits
str_isdigit(s) == s # <<>> /\ \A i \in 1..Len(s) : isdigit(s[i])

\* The value int() gives a decimal digit; SUPERSCRIPT TWO is a digit for
\* str.isdigit but not a decimal, and int() raises ValueError on it.
DecimalValue ==
    ("0" :> 0) @@ ("1" :> 1) @@ ("2" :> 2) @@ ("3" :> 3) @@ ("4" :> 4) @@ ("5" :> 5)
        @@ ("6" :> 6) @@ ("7" :> 7) @@ ("8" :> 8) @@ ("9" :> 9) @@ ("U+0663" :> 3)

RECURSIVE int_of_decimals(_)
int_of_decimals(s) ==
    IF s = <<>> THEN 0
    ELSE 10 * int_of_decimals(SubSeq(s, 1, Len(s) - 1)) + DecimalValue[s[Len(s)]]

int(s) ==
    IF s # <<>> /\ \A i \in 1..Len(s) : s[i] \in DOMAIN DecimalValue
    THEN [raised |-> FALSE, ret |-> int_of_decimals(s)]
    ELSE [raised |-> TRUE, ret |-> 0]

validate_date(date_str) ==
    LET s == strip(date_str)
        parts == split_slash(s, <<>>)
    IN  IF Len(parts) # 3 THEN [raised |-> FALSE, ret |-> FALSE]
        ELSE LET d_s == strip(parts[1])
                 m_s == strip(parts[2])
                 y_s == strip(parts[3])
             IN  IF ~(str_isdigit(d_s) /\ str_isdigit(m_s) /\ str_isdigit(y_s)
                      /\ Len(y_s) = 4)
                 THEN [raised |-> FALSE, ret |-> FALSE]
                 ELSE IF int(d_s).raised \/ int(m_s).raised \/ int(y_s).raised
                 THEN [raised |-> TRUE, ret |-> FALSE]
                 ELSE LET d == int(d_s).ret
                          m == int(m_s).ret
                          y == int(y_s).ret
                          month_days == <<31, 28, 31, 30, 31, 30, 31, 31, 30, 31, 30, 31>>
                          is_leap == y % 4 = 0 /\ (y % 100 # 0 \/ y % 400 = 0)
                      IN  IF y < 1900 THEN [raised |-> FALSE, ret |-> FALSE]
                          ELSE IF ~(1 <= m /\ m <= 12)
                          THEN [raised |-> FALSE, ret |-> FALSE]
                          ELSE LET max_day == IF m = 2 /\ is_leap THEN 29
                                              ELSE month_days[m]
                               IN  [raised |-> FALSE, ret |-> 1 <= d /\ d <= max_day]

-----------------------------------------------------------------------------
(* What the operator types at the prompts, and what direct callers pass.   *)

U1a == <<"U", "1", "a">>
LowerU12swan == <<"u", "1", "2", "s", "w", "a", "n">>
BadId == <<"u", "1", "a">>

NameInputs == {Alyssa, Zed, BlankName}
GuestCountInputs == {0, 1, 3, 7}
ApartmentIdInputs == {LowerU12swan, U1a}
NightsInputs == {0, 1, 2, 8}
ItemIdInputs == {"car_park", "sauna"}
QtyInputs == {0, 1, 2}
BedInputs == {0, 1, 2, 3}
BlockInputs == {-1, 0, 1, 2, 3, 4}

EarnedInputs == {-1, 0, 50}
SpendInputs == {-1, 0, 50, 400}
UpsertIdInputs == {U1a, BadId}
UpsertRateInputs == {0, 500}
UpsertCapacityInputs == {0, 4}

\* What callers of the order history pass.
OrderA ==
    [apartment_id |-> U12swan, nights |-> 1, items |-> EmptyDict, pre_total |-> 9500,
     redeemed_points |-> 0, final_total |-> 9500, earned_points |-> 95]
OrderB ==
    [apartment_id |-> U49goose, nights |-> 2, items |-> ("car_park" :> 1),
     pre_total |-> 31540, redeemed_points |-> 100, final_total |-> 30540,
     earned_points |-> 315]

HistoryGuests == {Alyssa, Zed}
SummaryInputs == {OrderA, OrderB}
AlteredValues == {0}

\* What callers of the catalog pass.
U1A == <<"U", "1", "A">>

CatalogIdInputs == {U1a, U1A, BadId}
CatalogRateInputs == {NaN, 0, 500, 700}
CatalogCapacityInputs == {0, 4}
LookupIdInputs == {U1a, U1A, BadId, LowerU12swan, <<>>}

LineInputs ==
    { <<>>,
      <<" ">>,
      <<",">>,
      <<"sauna", " ", "12.5">>,
      <<" ", "sauna", " ", " ", "30", " ">>,
      <<"sauna", " ", "12.5", ",", " ", "car_park", " ", "30">>,
      <<"sauna", " ", "12.5", ",", ",", "car_park", " ", "30", ",">>,
      <<"sauna", " ", "12.5", ",", "sauna", " ", "30">>,
      <<"sauna", " ", "12.5", ",", " ", "car_park">>,
      <<"sauna", " ", "12.5", ",", " ", "car_park", " ", "-3">>,
      <<"sauna", " ", "0">>,
      <<"car_park", " ", "30", ",", "sauna", " ", "free">>,
      <<"sauna", " ", "12.5", " ", "30">>,
      <<"sauna", " ", "nan">> }

-----------------------------------------------------------------------------
(* The package src/hotel_booking: its config, the global StorageManager    *)
(* and the functions of data_store, which read and write through it.  A    *)
(* value whose Python type varies is tagged with its type.                 *)

\* config.APARTMENTS: every id maps to a dictionary of rate and capacity
PackageApartments ==
    << [id |-> U12swan, value |-> [rate |-> 9500, capacity |-> 2]],
       [id |-> U209duck, value |-> [rate |-> 10670, capacity |-> 2]],
       [id |-> U49goose, value |-> [rate |-> 14520, capacity |-> 2]] >>

PackageGuestsPoints == (Alyssa :> 20) @@ (Luigi :> 32)

\* StorageManager(): copies of the two config dictionaries
StorageManager ==
    [apartments |-> PackageApartments, guests_points |-> PackageGuestsPoints]

view_apartments(sm) == sm.apartments

view_guests(sm) == sm.guests_points

\* Writes the balance of a guest the manager knows; for any other name it logs a
\* warning, returns False and writes nothing.
update_guest_points(sm, guest_name, new_points) ==
    IF guest_name \notin DOMAIN sm.guests_points
    THEN [raised |-> FALSE, ret |-> FALSE, sm |-> sm]
    ELSE IF new_points < 0
    THEN [raised |-> TRUE, ret |-> FALSE, sm |-> sm]
    ELSE [raised |-> FALSE, ret |-> TRUE,
          sm |-> [sm EXCEPT !.guests_points[guest_name] = new_points]]

\* data_store.get_rate: the value stored under the id, compared in lower case (of
\* several keys equal in lower case the dictionary keeps the last), else 0.0.
data_store_get_rate(sm, apartment_id) ==
    LET aps == view_apartments(sm)
        found == {i \in 1..Len(aps) : lower(aps[i].id) = lower(apartment_id)}
    IN  IF found = {}
        THEN [type |-> "float", value |-> 0]
        ELSE [type |-> "dict",
              value |-> aps[CHOOSE i \in found : \A j \in found : j <= i].value]

\* data_store.add_points: returns the new total whatever update_guest_points did.
data_store_add_points(sm, guest_name, earned) ==
    IF strip(guest_name) = <<>> \/ earned < 0
    THEN [raised |-> TRUE, ret |-> 0, sm |-> sm]
    ELSE LET current_points == Get(view_guests(sm), guest_name, 0)
             new_total == current_points + earned
             u == update_guest_points(sm, guest_name, new_total)
         IN  [raised |-> u.raised, ret |-> new_total, sm |-> u.sm]

data_store_get_guest_points(sm, guest_name) == Get(view_guests(sm), guest_name, 0)

-----------------------------------------------------------------------------
(* The state of the program. *)

NoBooking ==
    [guest_name |-> <<>>, num_guests |-> 0, apartment_id |-> <<>>, nights |-> 0,
     capacity |-> 0, extra_bed_qty |-> 0, rate |-> 0, apt_cost |-> 0,
     items_catalog |-> EmptyDict, ordered_items |-> EmptyDict,
     supp_subtotal |-> 0, pre_total |-> 0, current_pts |-> 0, opted_in |-> FALSE,
     discount_amount |-> 0, spent_points |-> 0, final_total |-> 0, earned |-> 0,
     iid |-> "", qty |-> 0, confirm |-> FALSE, tentative_total |-> 0]

NoStart == [guests_points |-> EmptyDict, apartments |-> <<>>, items |-> EmptyDict,
            orders_by_guest |-> EmptyDict]

NoCalc == [fn |-> "none"]

StoresNow == [guests_points |-> guests_points, apartments |-> apartments,
              items |-> items, orders_by_guest |-> orders_by_guest]

ZeroSums == [g \in Names |-> 0]

Init ==
    /\ guests_points = GUESTS_POINTS
    /\ apartments = APARTMENTS
    /\ items = SUPPLEMENTARY_ITEMS
    /\ orders_by_guest = EmptyDict
    /\ pc = "menu"
    /\ booking = NoBooking
    /\ start = NoStart
    /\ last = NoCall
    /\ added = ZeroSums
    /\ spent = ZeroSums
    /\ ncalls = 0
    /\ nbookings = 0
    /\ calc = NoCalc
    /\ storage_manager = StorageManager

\* The record of a ledger call: what was asked, whether it raised, what it returned.
Call(op, name, amount, r) ==
    [op |-> op, name |-> name, amount |-> amount, raised |-> r.raised, ret |-> r.ret]

-----------------------------------------------------------------------------
(* Direct calls of the stores (menu options 2 and 3, and any other caller). *)

AddPoints(name, earned) ==
    /\ pc = "menu"
    /\ ncalls < MaxCalls
    /\ LET r == add_points(guests_points, name, earned)
       IN  /\ guests_points' = r.gp
           /\ last' = Call("add_points", name, earned, r)
           /\ added' = IF r.raised THEN added ELSE [added EXCEPT ![name] = @ + earned]
    /\ ncalls' = ncalls + 1
    /\ UNCHANGED <<apartments, items, orders_by_guest, pc, booking, start, spent,
                   nbookings, calc, storage_manager>>

SpendPoints(name, points) ==
    /\ pc = "menu"
    /\ ncalls < MaxCalls
    /\ LET r == spend_points(guests_points, name, points)
       IN  /\ guests_points' = r.gp
           /\ last' = Call("spend_points", name, points, r)
           /\ spent' = IF r.raised THEN spent ELSE [spent EXCEPT ![name] = @ + points]
    /\ ncalls' = ncalls + 1
    /\ UNCHANGED <<apartments, items, orders_by_guest, pc, booking, start, added,
                   nbookings, calc, storage_manager>>

GetGuestPoints(name) ==
    /\ pc = "menu"
    /\ ncalls < MaxCalls
    /\ last' = Call("get_guest_points", name, 0,
                    [raised |-> FALSE, ret |-> get_guest_points(guests_points, name)])
    /\ ncalls' = ncalls + 1
    /\ UNCHANGED <<stores, pc, booking, start, added, spent, nbookings, calc,
                   storage_manager>>

UpsertApartment(apartment_id, rate, capacity) ==
    /\ pc = "menu"
    /\ LET r == upsert_apartment(apartments, apartment_id, rate, capacity)
       IN  /\ apartments' = r.aps
           /\ last' = [op |-> "upsert_apartment", id |-> apartment_id, rate |-> rate,
                       capacity |-> capacity, raised |-> r.raised]
    /\ UNCHANGED <<guests_points, items, orders_by_guest, pc, booking, start, added,
                   spent, ncalls, nbookings, calc, storage_manager>>

UpsertItemsBulk(line) ==
    /\ pc = "menu"
    /\ LET r == upsert_items_bulk(items, line)
       IN  /\ items' = r.its
           /\ last' = [op |-> "upsert_items_bulk", line |-> line, raised |-> r.raised]
    /\ UNCHANGED <<guests_points, apartments, orders_by_guest, pc, booking, start,
                   added, spent, ncalls, nbookings, calc, storage_manager>>

GetRate(apartment_id) ==
    /\ pc = "menu"
    /\ last' = [op |-> "get_rate", id |-> apartment_id,
                ret |-> get_rate(apartments, apartment_id)]
    /\ UNCHANGED <<stores, pc, booking, start, added, spent, ncalls, nbookings, calc,
                   storage_manager>>

GetCapacity(apartment_id) ==
    /\ pc = "menu"
    /\ last' = [op |-> "get_capacity", id |-> apartment_id,
                ret |-> get_capacity(apartments, apartment_id)]
    /\ UNCHANGED <<stores, pc, booking, start, added, spent, ncalls, nbookings, calc,
                   storage_manager>>

RecordOrder(guest, summary) ==
    /\ pc = "menu"
    /\ ncalls < MaxCalls
    /\ orders_by_guest' = record_order(orders_by_guest, guest, summary)
    /\ last' = [op |-> "record_order", guest |-> guest, summary |-> summary]
    /\ ncalls' = ncalls + 1
    /\ UNCHANGED <<guests_points, apartments, items, pc, booking, start, added, spent,
                   nbookings, calc, storage_manager>>

\* What a listing call hands out: ret, the new dictionary or list, and aliased,
\* whether the records in it are the store's own objects (list(...) copies the
\* list only) or copies of them (dict(v) for each record).
GetOrdersForGuest(guest) ==
    /\ pc = "menu"
    /\ last' = [op |-> "get_orders_for_guest", guest |-> guest,
                ret |-> get_orders_for_guest(orders_by_guest, guest),
                aliased |-> TRUE]
    /\ UNCHANGED <<stores, pc, booking, start, added, spent, ncalls, nbookings, calc,
                   storage_manager>>

ListApartments ==
    /\ pc = "menu"
    /\ last' = [op |-> "list_apartments", guest |-> <<>>,
                ret |-> list_apartments(apartments), aliased |-> FALSE]
    /\ UNCHANGED <<stores, pc, booking, start, added, spent, ncalls, nbookings, calc,
                   storage_manager>>

ListItems ==
    /\ pc = "menu"
    /\ last' = [op |-> "list_items", guest |-> <<>>, ret |-> list_items(items),
                aliased |-> FALSE]
    /\ UNCHANGED <<stores, pc, booking, start, added, spent, ncalls, nbookings, calc,
                   storage_manager>>

GetAllGuests ==
    /\ pc = "menu"
    /\ last' = [op |-> "get_all_guests", guest |-> <<>>, ret |-> get_all_guests(guests_points),
                aliased |-> FALSE]
    /\ UNCHANGED <<stores, pc, booking, start, added, spent, ncalls, nbookings, calc,
                   storage_manager>>

ListingOps == {"get_orders_for_guest", "list_apartments", "list_items", "get_all_guests"}

\* The caller deletes an entry of the list or dictionary it was handed.
DropReturned ==
    /\ pc = "menu"
    /\ last.op \in ListingOps
    /\ IF last.op \in {"get_orders_for_guest", "list_apartments"}
       THEN /\ last.ret # <<>>
            /\ last' = [last EXCEPT !.ret = Tail(@)]
       ELSE \E k \in DOMAIN last.ret :
                last' = [last EXCEPT !.ret = [x \in (DOMAIN @) \ {k} |-> @[x]]]
    /\ UNCHANGED <<stores, pc, booking, start, added, spent, ncalls, nbookings, calc,
                   storage_manager>>

\* The caller stores a value in the dictionary it was handed.
PutReturned(v) ==
    /\ pc = "menu"
    /\ last.op \in {"list_items", "get_all_guests"}
    /\ \E k \in DOMAIN last.ret : last' = [last EXCEPT !.ret = Put(@, k, v)]
    /\ UNCHANGED <<stores, pc, booking, start, added, spent, ncalls, nbookings, calc,
                   storage_manager>>

\* The caller assigns to a field of record i of what it was handed: the final
\* total of an order summary, the rate of an apartment record.
AlterReturnedRecord(i, v) ==
    /\ pc = "menu"
    /\ last.op \in {"get_orders_for_guest", "list_apartments"}
    /\ i \in 1..Len(last.ret)
    /\ IF last.op = "get_orders_for_guest"
       THEN /\ last' = [last EXCEPT !.ret[i].final_total = v]
            /\ orders_by_guest' =
                   IF last.aliased
                   THEN [orders_by_guest EXCEPT ![last.guest][i].final_total = v]
                   ELSE orders_by_guest
       ELSE /\ last' = [last EXCEPT !.ret[i].rate = v]
            /\ UNCHANGED orders_by_guest
    /\ UNCHANGED <<guests_points, apartments, items, pc, booking, start, added, spent,
                   ncalls, nbookings, calc, storage_manager>>

-----------------------------------------------------------------------------
(* Main application: run_booking, one action per step between prompts.     *)

\* Menu option 1.
StartBooking ==
    /\ pc = "menu"
    /\ nbookings < MaxBookings
    /\ pc' = "CollectingInputs"
    /\ booking' = NoBooking
    /\ start' = StoresNow
    /\ last' = NoCall
    /\ nbookings' = nbookings + 1
    /\ UNCHANGED <<stores, added, spent, ncalls, calc, storage_manager>>

\* prompt_guest_name, prompt_num_guests, prompt_existing_apartment_id,
\* prompt_nights_1_to_7: each returns only a value it accepts.
InputsValid(raw_name, n, aid, nights_in) ==
    /\ strip(raw_name) # <<>>
    /\ Len(strip(raw_name)) <= 100
    /\ n > 0
    /\ n <= 20
    /\ Matches(list_apartments(apartments), aid) # <<>>
    /\ 1 <= nights_in
    /\ nights_in <= 7

CollectInputs(raw_name, n, aid, nights_in) ==
    /\ pc = "CollectingInputs"
    /\ InputsValid(raw_name, n, aid, nights_in)
    /\ LET apartment_id == Matches(list_apartments(apartments), aid)[1].id
       IN  booking' = [booking EXCEPT !.guest_name = strip(raw_name),
                                      !.num_guests = n,
                                      !.apartment_id = apartment_id,
                                      !.rate = get_rate(apartments, apartment_id),
                                      !.nights = nights_in]
    /\ pc' = "CheckingCapacity"
    /\ last' = NoCall
    /\ UNCHANGED <<stores, start, added, spent, ncalls, nbookings, calc, storage_manager>>

\* Line 557: the beds added still leave too little room.
StillInsufficientOffByBed(capacity, extra_bed_qty, num_guests) ==
    capacity + (extra_bed_qty + 1) * 2 < num_guests

StillInsufficient(capacity, extra_bed_qty, num_guests) ==
    capacity + extra_bed_qty * 2 < num_guests

\* Lines 550-571: the extra-bed rule, the apartment cost and the seeded order.
CheckCapacity(add_beds, qty) ==
    /\ pc = "CheckingCapacity"
    /\ LET capacity == get_capacity(apartments, booking.apartment_id)
           beds_needed == required_extra_beds(booking.num_guests, capacity)
           rate == get_rate(apartments, booking.apartment_id)
           apt == compute_total_cost(rate, booking.nights)
           seeded == IF qty # 0
                     THEN Put(EmptyDict, "extra_bed",
                              Get(EmptyDict, "extra_bed", 0) + qty * booking.nights)
                     ELSE EmptyDict
           b1 == [booking EXCEPT !.capacity = capacity, !.extra_bed_qty = qty]
       IN  /\ IF beds_needed > 0
              THEN add_beds => (qty > 0 /\ qty <= 2)
              ELSE ~add_beds
           /\ ~add_beds => qty = 0
           /\ IF beds_needed > 0
                 /\ (~add_beds \/ StillInsufficient(capacity, qty, booking.num_guests))
              THEN /\ pc' = "Aborted"
                   /\ booking' = b1
              ELSE IF apt.raised
              THEN /\ pc' = "Aborted"
                   /\ booking' = [b1 EXCEPT !.rate = rate]
              ELSE /\ pc' = "OrderingItems"
                   /\ booking' = [b1 EXCEPT !.rate = rate,
                                            !.apt_cost = apt.ret,
                                            !.items_catalog = list_items(items),
                                            !.ordered_items = seeded]
    /\ last' = NoCall
    /\ UNCHANGED <<stores, start, added, spent, ncalls, nbookings, calc, storage_manager>>

\* Line 595: the confirmed quantity is added to what the order already holds.
merge_item_replacing(ordered_items, iid, qty) == Put(ordered_items, iid, qty)

merge_item(ordered_items, iid, qty) ==
    Put(ordered_items, iid, Get(ordered_items, iid, 0) + qty)

\* One turn of the ordering loop, lines 576-600: the locals after it, or the
\* KeyError of a price that is missing.
order_item(b, iid, qty, confirm) ==
    LET ordered == b.ordered_items
        tentative_items == Put(ordered, iid, Get(ordered, iid, 0) + qty)
        tentative == calc_items_subtotal(tentative_items, b.items_catalog)
    IN  IF iid \notin DOMAIN b.items_catalog \/ tentative.raised
        THEN [raised |-> TRUE, booking |-> b]
        ELSE [raised |-> FALSE,
              booking |-> [b EXCEPT !.iid = iid,
                                    !.qty = qty,
                                    !.tentative_total = tentative.ret,
                                    !.confirm = confirm,
                                    !.ordered_items =
                                        IF confirm THEN merge_item(ordered, iid, qty)
                                        ELSE ordered]]

OrderItem(iid, qty, confirm) ==
    /\ pc = "OrderingItems"
    /\ Get(booking.ordered_items, iid, 0) + qty <= MaxItemQty
    /\ iid \in DOMAIN list_items(items)
    /\ qty > 0
    /\ LET r == order_item(booking, iid, qty, confirm)
       IN  /\ pc' = IF r.raised THEN "Aborted" ELSE pc
           /\ booking' = r.booking
    /\ last' = NoCall
    /\ UNCHANGED <<stores, start, added, spent, ncalls, nbookings, calc, storage_manager>>

\* The question of line 600 put again in place of leaving the loop.
FinishOrderingNever ==
    /\ pc = "OrderingItems"
    /\ UNCHANGED vars

\* The guest orders nothing more: lines 602-608.  The locals of the loop body
\* (iid, qty, confirm, tentative_total) are read nowhere after the loop and are
\* dropped here.
FinishOrdering ==
    /\ pc = "OrderingItems"
    /\ LET sub == IF booking.ordered_items # EmptyDict
                  THEN calc_items_subtotal(booking.ordered_items, booking.items_catalog)
                  ELSE [raised |-> FALSE, ret |-> 0]
           pre_total == booking.apt_cost + sub.ret
       IN  IF sub.raised
           THEN /\ pc' = "Aborted"
                /\ booking' = booking
           ELSE /\ pc' = "Redeeming"
                /\ booking' = [booking EXCEPT
                                 !.supp_subtotal = sub.ret,
                                 !.pre_total = pre_total,
                                 !.current_pts =
                                     get_guest_points(guests_points, booking.guest_name),
                                 !.discount_amount = 0,
                                 !.spent_points = 0,
                                 !.final_total = pre_total,
                                 !.iid = "",
                                 !.qty = 0,
                                 !.confirm = FALSE,
                                 !.tentative_total = 0]
    /\ last' = NoCall
    /\ UNCHANGED <<stores, start, added, spent, ncalls, nbookings, calc, storage_manager>>

CanRedeem == booking.current_pts >= 100 /\ booking.pre_total >= 1000

max_blocks == Min(booking.current_pts \div 100, booking.pre_total \div 1000)

\* Line 610: the redemption branch is entered.
RedeemEnteredUnasked(opt_in) == CanRedeem

RedeemEntered(opt_in) == CanRedeem /\ opt_in

\* Lines 610-625: the offer to redeem and the number of blocks.
Redeem(opt_in, blocks) ==
    /\ pc = "Redeeming"
    /\ opt_in => CanRedeem
    /\ IF RedeemEntered(opt_in)
       THEN 0 <= blocks /\ blocks <= max_blocks
       ELSE blocks = 0
    /\ LET r == apply_points_redemption(booking.pre_total, booking.current_pts, blocks)
       IN  booking' = IF RedeemEntered(opt_in)
                      THEN [booking EXCEPT !.opted_in = opt_in,
                                           !.final_total = r.final_total,
                                           !.spent_points = r.spent_points,
                                           !.discount_amount =
                                               booking.pre_total - r.final_total]
                      ELSE booking
    /\ pc' = "Finalizing"
    /\ last' = NoCall
    /\ UNCHANGED <<stores, start, added, spent, ncalls, nbookings, calc, storage_manager>>

\* Line 627: the amount the earned points are computed from.
EarnedBasisAfterDiscount == booking.final_total

EarnedBasis == booking.pre_total

\* Lines 627-648: the points earned and the receipt.
Finalize ==
    /\ pc = "Finalizing"
    /\ LET e == points_round_half_up(EarnedBasis)
       IN  IF e.raised
           THEN /\ pc' = "Aborted"
                /\ booking' = booking
           ELSE /\ pc' = "Committing_spend"
                /\ booking' = [booking EXCEPT !.earned = e.ret]
    /\ last' = NoCall
    /\ UNCHANGED <<stores, start, added, spent, ncalls, nbookings, calc, storage_manager>>

CommitSpendSkipped ==
    /\ pc = "Committing_spend"
    /\ pc' = "Committing_add"
    /\ last' = NoCall
    /\ UNCHANGED <<stores, booking, start, added, spent, ncalls, nbookings, calc,
                   storage_manager>>

\* Lines 650-651.
CommitSpend ==
    /\ pc = "Committing_spend"
    /\ IF booking.spent_points # 0
       THEN LET r == spend_points(guests_points, booking.guest_name, booking.spent_points)
            IN  /\ guests_points' = r.gp
                /\ last' = Call("spend_points", booking.guest_name,
                                booking.spent_points, r)
                /\ spent' = IF r.raised THEN spent
                            ELSE [spent EXCEPT ![booking.guest_name] =
                                                   @ + booking.spent_points]
                /\ pc' = IF r.raised THEN "Aborted" ELSE "Committing_add"
       ELSE /\ pc' = "Committing_add"
            /\ last' = NoCall
            /\ UNCHANGED <<guests_points, spent>>
    /\ UNCHANGED <<apartments, items, orders_by_guest, booking, start, added, ncalls,
                   nbookings, calc, storage_manager>>

\* The points credited to an account that is not the guest's.
CommitAddElsewhere ==
    /\ pc = "Committing_add"
    /\ LET r == add_points(guests_points, Luigi, booking.earned)
       IN  /\ guests_points' = r.gp
           /\ last' = Call("add_points", Luigi, booking.earned, r)
           /\ added' = IF r.raised THEN added
                       ELSE [added EXCEPT ![Luigi] = @ + booking.earned]
           /\ pc' = IF r.raised THEN "Aborted" ELSE "Committing_record"
    /\ UNCHANGED <<apartments, items, orders_by_guest, booking, start, spent, ncalls,
                   nbookings, calc, storage_manager>>

\* Line 652.
CommitAdd ==
    /\ pc = "Committing_add"
    /\ LET r == add_points(guests_points, booking.guest_name, booking.earned)
       IN  /\ guests_points' = r.gp
           /\ last' = Call("add_points", booking.guest_name, booking.earned, r)
           /\ added' = IF r.raised THEN added
                       ELSE [added EXCEPT ![booking.guest_name] = @ + booking.earned]
           /\ pc' = IF r.raised THEN "Aborted" ELSE "Committing_record"
    /\ UNCHANGED <<apartments, items, orders_by_guest, booking, start, spent, ncalls,
                   nbookings, calc, storage_manager>>

Summary ==
    [apartment_id |-> booking.apartment_id,
     nights |-> booking.nights,
     items |-> booking.ordered_items,
     pre_total |-> booking.pre_total,
     redeemed_points |-> booking.spent_points,
     final_total |-> booking.final_total,
     earned_points |-> booking.earned]

CommitRecordSkipped ==
    /\ pc = "Committing_record"
    /\ pc' = "Recorded"
    /\ last' = NoCall
    /\ UNCHANGED <<stores, booking, start, added, spent, ncalls, nbookings, calc,
                   storage_manager>>

\* Lines 653-667.
CommitRecord ==
    /\ pc = "Committing_record"
    /\ orders_by_guest' = record_order(orders_by_guest, booking.guest_name, Summary)
    /\ pc' = "Recorded"
    /\ last' = NoCall
    /\ UNCHANGED <<guests_points, apartments, items, booking, start, added, spent,
                   ncalls, nbookings, calc, storage_manager>>

\* A prompt is showing where the booking stands.
AtPrompt ==
    \/ pc \in {"CollectingInputs", "OrderingItems"}
    \/ /\ pc = "CheckingCapacity"
       /\ required_extra_beds(booking.num_guests,
                              get_capacity(apartments, booking.apartment_id)) > 0
    \/ pc = "Redeeming" /\ CanRedeem

\* input() raises (end of input): run_booking's handler reports and returns False.
InputError ==
    /\ AtPrompt
    /\ pc' = "Aborted"
    /\ last' = NoCall
    /\ UNCHANGED <<stores, booking, start, added, spent, ncalls, nbookings, calc,
                   storage_manager>>

\* A value the prompt refuses: it asks again.
Reprompt ==
    /\ AtPrompt
    /\ \/ /\ pc = "CollectingInputs"
          /\ \E raw_name \in NameInputs, n \in GuestCountInputs,
                aid \in ApartmentIdInputs, nights_in \in NightsInputs :
                 ~InputsValid(raw_name, n, aid, nights_in)
       \/ /\ pc = "CheckingCapacity"
          /\ \E qty \in BedInputs : ~(qty > 0 /\ qty <= 2)
       \/ /\ pc = "OrderingItems"
          /\ \E iid \in ItemIdInputs, qty \in QtyInputs :
                 iid \notin DOMAIN list_items(items) \/ qty <= 0
       \/ /\ pc = "Redeeming"
          /\ CanRedeem
          /\ \E blocks \in BlockInputs : ~(0 <= blocks /\ blocks <= max_blocks)
    /\ UNCHANGED vars

\* run_booking has returned True (Recorded) or False (Aborted): back to the menu.
Return ==
    /\ pc \in {"Recorded", "Aborted"}
    /\ pc' = "menu"
    /\ booking' = NoBooking
    /\ start' = NoStart
    /\ last' = NoCall
    /\ UNCHANGED <<stores, added, spent, ncalls, nbookings, calc, storage_manager>>

-----------------------------------------------------------------------------

\* The program: the menu of run_once and the bookings it starts.
Next ==
    \/ \E id \in UpsertIdInputs, rate \in UpsertRateInputs,
          capacity \in UpsertCapacityInputs : UpsertApartment(id, rate, capacity)
    \/ StartBooking
    \/ \E raw_name \in NameInputs, n \in GuestCountInputs, aid \in ApartmentIdInputs,
          nights_in \in NightsInputs : CollectInputs(raw_name, n, aid, nights_in)
    \/ \E add_beds \in BOOLEAN, qty \in BedInputs : CheckCapacity(add_beds, qty)
    \/ \E iid \in ItemIdInputs, qty \in QtyInputs, confirm \in BOOLEAN :
           OrderItem(iid, qty, confirm)
    \/ FinishOrdering
    \/ \E opt_in \in BOOLEAN, blocks \in BlockInputs : Redeem(opt_in, blocks)
    \/ Finalize
    \/ CommitSpend
    \/ CommitAdd
    \/ CommitRecord
    \/ InputError
    \/ Reprompt
    \/ Return

Spec == Init /\ [][Next]_vars

\* The steps run_booking takes once the operator has answered its prompt with a
\* value the prompt accepts; at the question "order another item?" the answer
\* that lets the booking go on is "no".
BookingStep ==
    \/ \E raw_name \in NameInputs, n \in GuestCountInputs, aid \in ApartmentIdInputs,
          nights_in \in NightsInputs : CollectInputs(raw_name, n, aid, nights_in)
    \/ \E add_beds \in BOOLEAN, qty \in BedInputs : CheckCapacity(add_beds, qty)
    \/ FinishOrdering
    \/ \E opt_in \in BOOLEAN, blocks \in BlockInputs : Redeem(opt_in, blocks)
    \/ Finalize
    \/ CommitSpend
    \/ CommitAdd
    \/ CommitRecord

\* The bookings of the program (menu option 1) with an operator who does not
\* leave a prompt unanswered for ever nor orders items for ever: run_booking is
\* sequential code, so the step after an accepted answer always runs.
NextBooking ==
    \/ StartBooking
    \/ BookingStep
    \/ \E iid \in ItemIdInputs, qty \in QtyInputs, confirm \in BOOLEAN :
           OrderItem(iid, qty, confirm)
    \/ InputError
    \/ Reprompt
    \/ Return

SpecLive == Init /\ [][NextBooking]_vars /\ WF_vars(BookingStep)

\* The ordering loop of a booking on its own: larger orders, with extra beds
\* seeded, up to the guest's declining further items.
MaxOrderQty == 3    \* units of one item a booking of this specification orders

OrderMoreItems(iid, qty, confirm) ==
    /\ pc = "OrderingItems"
    /\ Get(booking.ordered_items, iid, 0) + qty <= MaxOrderQty
    /\ iid \in DOMAIN list_items(items)
    /\ qty > 0
    /\ LET r == order_item(booking, iid, qty, confirm)
       IN  /\ pc' = IF r.raised THEN "Aborted" ELSE pc
           /\ booking' = r.booking
    /\ last' = NoCall
    /\ UNCHANGED <<stores, start, added, spent, ncalls, nbookings, calc, storage_manager>>

NextOrdering ==
    \/ StartBooking
    \/ \E n \in {2, 3, 4}, nights_in \in {1, 2} :
           CollectInputs(Alyssa, n, LowerU12swan, nights_in)
    \/ \E add_beds \in BOOLEAN, qty \in BedInputs : CheckCapacity(add_beds, qty)
    \/ \E iid \in {"car_park", "extra_bed", "sauna"}, qty \in {0, 1, 2},
          confirm \in BOOLEAN : OrderMoreItems(iid, qty, confirm)
    \/ FinishOrdering

SpecOrdering == Init /\ [][NextOrdering]_vars

\* The ledger under any caller: sequences of add_points, spend_points and
\* get_guest_points.
NextLedger ==
    \/ \E name \in Names, earned \in EarnedInputs : AddPoints(name, earned)
    \/ \E name \in Names, points \in SpendInputs : SpendPoints(name, points)
    \/ \E name \in Names : GetGuestPoints(name)

SpecLedger == Init /\ [][NextLedger]_vars

\* The catalog under any caller: sequences of upsert_apartment, upsert_items_bulk,
\* get_rate and get_capacity.
NextCatalog ==
    \/ \E id \in CatalogIdInputs, rate \in CatalogRateInputs,
          capacity \in CatalogCapacityInputs : UpsertApartment(id, rate, capacity)
    \/ \E line \in LineInputs : UpsertItemsBulk(line)
    \/ \E id \in LookupIdInputs : GetRate(id)
    \/ \E id \in LookupIdInputs : GetCapacity(id)

SpecCatalog == Init /\ [][NextCatalog]_vars

\* The order history under any caller: sequences of record_order and
\* get_orders_for_guest.
NextHistory ==
    \/ \E guest \in HistoryGuests, summary \in SummaryInputs : RecordOrder(guest, summary)
    \/ \E guest \in HistoryGuests : GetOrdersForGuest(guest)

SpecHistory == Init /\ [][NextHistory]_vars

\* Callers that keep what the listing calls hand out and change it.
NextViews ==
    \/ NextHistory
    \/ ListApartments
    \/ ListItems
    \/ GetAllGuests
    \/ DropReturned
    \/ \E v \in AlteredValues : PutReturned(v)
    \/ \E i \in 1..MaxCalls, v \in AlteredValues : AlterReturnedRecord(i, v)

SpecViews == Init /\ [][NextViews]_vars

-----------------------------------------------------------------------------
(* The pricing functions on their own: each action evaluates one function  *)
(* on inputs drawn from the sets below and keeps the inputs and the result.*)

MaxCents == 3100      \* amounts from -MaxCents to MaxCents cents are tried
MaxGuests == 10       \* guest counts and capacities up to MaxGuests are tried
MaxBlocks == 7        \* block requests up to MaxBlocks are tried

AmountInputs == (-MaxCents..MaxCents) \cup {35040, 35060, 59950}
PreTotalInputs == {250 * d : d \in -8..24}
GuestPointsInputs == {-150, -100, -1, 0, 99, 100, 199, 250, 300, 450}
RedeemBlocksInputs == -2..MaxBlocks
CountInputs == -3..MaxGuests

RateInputs == {-100, 0, 9500}
StayInputs == {-1, 0, 3}
QtyDictInputs ==
    {("car_park" :> q) : q \in {-2, 1, 2}}
        \cup {EmptyDict, ("sauna" :> 1), ("car_park" :> 1) @@ ("extra_bed" :> 2)}
PriceDictInputs == {SUPPLEMENTARY_ITEMS, ("car_park" :> -2500) @@ ("extra_bed" :> 3000)}

MaxIdLen == 3         \* ids of up to MaxIdLen characters are tried
IdInputs ==
    UNION {[1..n -> {"U", "u", "1", "a", "Z", "_", " ", "U+00E9", "U+0663"}] :
               n \in 0..MaxIdLen}

\* Dates as typed: a day, a month and a year text joined by "/", and texts of
\* another shape.
DateInputs ==
    LET days ==
            { <<"1">>, <<"0", "1">>, <<"2", "8">>, <<"2", "9">>, <<"3", "0">>,
              <<"3", "1">>, <<"3", "2">>, <<"0">>, <<"0", "0", "1">>, <<" ", "1">>,
              <<"-", "1">>, <<"U+0663">>, <<"U+00B2">>, <<>> }
        months ==
            { <<"1">>, <<"2">>, <<"0", "2">>, <<"4">>, <<"1", "2">>, <<"1", "3">>,
              <<"0">>, <<"0", "1", "2">>, <<"2", " ">> }
        years ==
            { <<"2", "0", "2", "4">>, <<"2", "0", "2", "3">>, <<"1", "9", "0", "0">>,
              <<"2", "0", "0", "0">>, <<"1", "8", "9", "9">>, <<"0", "2", "4">>,
              <<"0", "2", "0", "2", "4">>, <<"2", "0", "2", "4", " ">> }
        others ==
            { <<>>, <<"1", "/", "1">>, <<"/", "/">>,
              <<"1", "/", "1", "/", "2", "0", "2", "4", "/">>,
              <<"1", "-", "1", "-", "2", "0", "2", "4">> }
    IN  {d \o <<"/">> \o m \o <<"/">> \o y : d \in days, m \in months, y \in years}
            \cup others

EvalValidateDate(date_str) ==
    /\ calc = NoCalc
    /\ LET r == validate_date(date_str)
       IN  calc' = [fn |-> "_validate_date", date_str |-> date_str,
                    raised |-> r.raised, ret |-> r.ret]
    /\ UNCHANGED <<stores, pc, booking, start, last, added, spent, ncalls, nbookings,
                   storage_manager>>

EvalPointsRoundHalfUp(cents) ==
    /\ calc = NoCalc
    /\ LET r == points_round_half_up(cents)
       IN  calc' = [fn |-> "points_round_half_up", amount |-> cents,
                    raised |-> r.raised, ret |-> r.ret]
    /\ UNCHANGED <<stores, pc, booking, start, last, added, spent, ncalls, nbookings,
                   storage_manager>>

EvalRequiredExtraBeds(num_guests, capacity) ==
    /\ calc = NoCalc
    /\ calc' = [fn |-> "required_extra_beds", num_guests |-> num_guests,
                capacity |-> capacity,
                ret |-> required_extra_beds(num_guests, capacity)]
    /\ UNCHANGED <<stores, pc, booking, start, last, added, spent, ncalls, nbookings,
                   storage_manager>>

EvalApplyPointsRedemption(pre_total, guest_points, redeem_blocks) ==
    /\ calc = NoCalc
    /\ LET r == apply_points_redemption(pre_total, guest_points, redeem_blocks)
       IN  calc' = [fn |-> "apply_points_redemption", pre_total |-> pre_total,
                    guest_points |-> guest_points, redeem_blocks |-> redeem_blocks,
                    final_total |-> r.final_total, spent_points |-> r.spent_points]
    /\ UNCHANGED <<stores, pc, booking, start, last, added, spent, ncalls, nbookings,
                   storage_manager>>

EvalComputeTotalCost(rate, nights) ==
    /\ calc = NoCalc
    /\ LET r == compute_total_cost(rate, nights)
       IN  calc' = [fn |-> "compute_total_cost", rate |-> rate, nights |-> nights,
                    raised |-> r.raised, ret |-> r.ret]
    /\ UNCHANGED <<stores, pc, booking, start, last, added, spent, ncalls, nbookings,
                   storage_manager>>

EvalCalcItemsSubtotal(items_with_qty, price_lookup) ==
    /\ calc = NoCalc
    /\ LET r == calc_items_subtotal(items_with_qty, price_lookup)
       IN  calc' = [fn |-> "calc_items_subtotal", items_with_qty |-> items_with_qty,
                    price_lookup |-> price_lookup, raised |-> r.raised, ret |-> r.ret]
    /\ UNCHANGED <<stores, pc, booking, start, last, added, spent, ncalls, nbookings,
                   storage_manager>>

EvalIsValidApartmentId(apartment_id) ==
    /\ calc = NoCalc
    /\ calc' = [fn |-> "_is_valid_apartment_id", id |-> apartment_id,
                ret |-> is_valid_apartment_id(apartment_id)]
    /\ UNCHANGED <<stores, pc, booking, start, last, added, spent, ncalls, nbookings,
                   storage_manager>>

NextCalc ==
    \/ \E date_str \in DateInputs : EvalValidateDate(date_str)
    \/ \E id \in IdInputs : EvalIsValidApartmentId(id)
    \/ \E rate \in RateInputs, nights \in StayInputs : EvalComputeTotalCost(rate, nights)
    \/ \E q \in QtyDictInputs, p \in PriceDictInputs : EvalCalcItemsSubtotal(q, p)
    \/ \E cents \in AmountInputs : EvalPointsRoundHalfUp(cents)
    \/ \E n \in CountInputs, c \in CountInputs : EvalRequiredExtraBeds(n, c)
    \/ \E p \in PreTotalInputs, g \in GuestPointsInputs, b \in RedeemBlocksInputs :
           EvalApplyPointsRedemption(p, g, b)

SpecCalc == Init /\ [][NextCalc]_vars

-----------------------------------------------------------------------------
(* Callers of the package's data_store, as its tests call it. *)

DataStoreAddPoints(guest_name, earned) ==
    /\ pc = "menu"
    /\ ncalls < MaxCalls
    /\ LET r == data_store_add_points(storage_manager, guest_name, earned)
       IN  /\ storage_manager' = r.sm
           /\ last' = Call("data_store.add_points", guest_name, earned, r)
    /\ ncalls' = ncalls + 1
    /\ UNCHANGED <<stores, pc, booking, start, added, spent, nbookings, calc>>

DataStoreGetGuestPoints(guest_name) ==
    /\ pc = "menu"
    /\ ncalls < MaxCalls
    /\ last' = Call("data_store.get_guest_points", guest_name, 0,
                    [raised |-> FALSE,
                     ret |-> data_store_get_guest_points(storage_manager, guest_name)])
    /\ ncalls' = ncalls + 1
    /\ UNCHANGED <<stores, pc, booking, start, added, spent, nbookings, calc,
                   storage_manager>>

DataStoreGetRate(apartment_id) ==
    /\ pc = "menu"
    /\ last' = [op |-> "data_store.get_rate", id |-> apartment_id,
                ret |-> data_store_get_rate(storage_manager, apartment_id)]
    /\ UNCHANGED <<stores, pc, booking, start, added, spent, ncalls, nbookings, calc,
                   storage_manager>>

NextDataStore ==
    \/ \E n \in {Alyssa, Luigi, Zed, BlankName}, e \in {-5, 0, 10, 25} :
           DataStoreAddPoints(n, e)
    \/ \E n \in {Alyssa, Luigi, Zed, BlankName} : DataStoreGetGuestPoints(n)
    \/ \E id \in {U12swan, LowerU12swan, U209duck, Zed, <<>>} : DataStoreGetRate(id)

SpecDataStore == Init /\ [][NextDataStore]_vars

-----------------------------------------------------------------------------
(* Arithmetic stated from its definition, for the statements below. *)

\* floor(n / d) for d > 0: the integer m with d*m <= n < d*(m+1)
FloorOf(n, d) == CHOOSE m \in -200..200 : d * m <= n /\ n < d * (m + 1)

\* ceil(n / d) for d > 0: the integer m with d*(m-1) < n <= d*m
CeilOf(n, d) == CHOOSE m \in -200..200 : d * (m - 1) < n /\ n <= d * m

Min3(a, b, c) == Min(a, Min(b, c))

\* r is floor(cents / 100 + 0.5)
IsRoundHalfUp(r, cents) == 100 * r <= cents + 50 /\ cents + 50 < 100 * (r + 1)

-----------------------------------------------------------------------------
(* The pricing functions. *)

\* C6: for every pre_total >= 0, guest_points >= 0 and every requested number of
\* blocks, apply_points_redemption spends 100*k points and returns
\* max(0, pre_total - 10*k), k = min(max(requested, 0), guest_points div 100,
\* floor(pre_total / 10)); (55, 250, 3) gives (35, 200).
C6_RedemptionFormula ==
    (calc.fn = "apply_points_redemption" /\ calc.pre_total >= 0 /\ calc.guest_points >= 0)
    => LET k == Min3(Max(calc.redeem_blocks, 0), FloorOf(calc.guest_points, 100),
                     FloorOf(calc.pre_total, 1000))
       IN  /\ calc.spent_points = 100 * k
           /\ calc.final_total = Max(0, calc.pre_total - 1000 * k)
           /\ (calc.pre_total = 5500 /\ calc.guest_points = 250 /\ calc.redeem_blocks = 3)
              => (calc.final_total = 3500 /\ calc.spent_points = 200)

C6_Witness ==
    /\ calc.fn = "apply_points_redemption"
    /\ calc.pre_total = 5500 /\ calc.guest_points = 250 /\ calc.redeem_blocks = 3
    /\ calc.final_total = 3500 /\ calc.spent_points = 200

\* C7: for every triple apply_points_redemption accepts, a negative pre_total or a
\* negative guest_points included, the points spent are a multiple of 100 between 0
\* and max(guest_points, 0), their value is at most max(pre_total, 0), and the
\* final total lies between 0 and max(pre_total, 0).
C7_RedemptionNeverOverspends ==
    calc.fn = "apply_points_redemption"
    => /\ calc.spent_points % 100 = 0
       /\ 0 <= calc.spent_points
       /\ calc.spent_points <= Max(calc.guest_points, 0)
       /\ calc.spent_points * 10 <= Max(calc.pre_total, 0)
       /\ 0 <= calc.final_total
       /\ calc.final_total <= Max(calc.pre_total, 0)

\* C8: for every amount x >= 0, points_round_half_up(x) = floor(x + 0.5), so .50
\* rounds up (599.50 -> 600, 350.4 -> 350, 350.6 -> 351, 0 -> 0); for every x < 0
\* it raises and returns nothing.
C8_RoundHalfUp ==
    calc.fn = "points_round_half_up"
    => /\ calc.amount >= 0 => (~calc.raised /\ IsRoundHalfUp(calc.ret, calc.amount))
       /\ calc.amount < 0 => calc.raised
       /\ calc.amount = 59950 => calc.ret = 600
       /\ calc.amount = 35040 => calc.ret = 350
       /\ calc.amount = 35060 => calc.ret = 351
       /\ calc.amount = 0 => calc.ret = 0

C8_Witness ==
    /\ calc.fn = "points_round_half_up"
    /\ calc.amount = 59950
    /\ ~calc.raised
    /\ calc.ret = 600

\* C9: required_extra_beds returns 0 when num_guests <= capacity and otherwise
\* min(2, ceil((num_guests - capacity) / 2)); the result is 0, 1 or 2;
\* required_extra_beds(5, 2) = 2 and required_extra_beds(4, 2) = 1.
C9_RequiredExtraBeds ==
    calc.fn = "required_extra_beds"
    => /\ calc.num_guests <= calc.capacity => calc.ret = 0
       /\ calc.num_guests > calc.capacity
          => calc.ret = Min(2, CeilOf(calc.num_guests - calc.capacity, 2))
       /\ calc.ret \in {0, 1, 2}
       /\ (calc.num_guests = 5 /\ calc.capacity = 2) => calc.ret = 2
       /\ (calc.num_guests = 4 /\ calc.capacity = 2) => calc.ret = 1

C9_Witness ==
    /\ calc.fn = "required_extra_beds"
    /\ calc.num_guests = 5 /\ calc.capacity = 2
    /\ calc.ret = 2

-----------------------------------------------------------------------------
(* The loyalty ledger. *)

\* C1: through any sequence of add_points and spend_points calls, accepted or
\* rejected, every balance is an integer >= 0 and equals the guest's initial
\* balance (0 if absent) plus the accepted adds minus the accepted spends, and an
\* accepted call returns that balance.
C1_LedgerBalances ==
    /\ \A g \in DOMAIN guests_points :
           /\ guests_points[g] \in Nat
           /\ guests_points[g] = InitialPoints(g) + added[g] - spent[g]
    /\ \A g \in Names \ DOMAIN guests_points :
           InitialPoints(g) + added[g] - spent[g] = 0
    /\ (last.op \in {"add_points", "spend_points"} /\ ~last.raised)
       => /\ last.name \in DOMAIN guests_points
          /\ last.ret = guests_points[last.name]

C1_Witness ==
    /\ last.op = "spend_points" /\ ~last.raised /\ last.name = Zed /\ last.amount = 50
    /\ added[Zed] = 50 /\ spent[Zed] = 50
    /\ guests_points[Zed] = 0

-----------------------------------------------------------------------------
(* The booking transaction. *)

Guest == booking.guest_name

\* The guest's balance when the running booking began.
BalanceAtStart == Get(start.guests_points, Guest, 0)

BalanceNow == Get(guests_points, Guest, 0)

\* The summary the running booking appended to the guest's history.
RecordedSummary == orders_by_guest[Guest][Len(orders_by_guest[Guest])]

PreCommit == {"CollectingInputs", "CheckingCapacity", "OrderingItems", "Redeeming",
              "Finalizing", "Committing_spend"}

PastRedeeming == {"Finalizing", "Committing_spend", "Committing_add",
                  "Committing_record", "Recorded"}

PastCheckingCapacity == {"OrderingItems", "Redeeming"} \cup PastRedeeming

\* C2: a booking that reaches Recorded with balance B before it, S points redeemed
\* and pre-total P first debits S (the balance in between is B - S >= 0) and only
\* then credits pointsFromAmount(P), leaving B - S + pointsFromAmount(P);
\* 250 points, a $55 pre-total and 2 blocks give 105.
C2_DebitThenCredit ==
    /\ pc = "Committing_spend" => BalanceNow = BalanceAtStart
    /\ pc = "Committing_add"
       => /\ BalanceNow = BalanceAtStart - booking.spent_points
          /\ BalanceNow >= 0
    /\ pc \in {"Committing_record", "Recorded"}
       => /\ Guest \in DOMAIN guests_points
          /\ IsRoundHalfUp(guests_points[Guest] - (BalanceAtStart - booking.spent_points),
                           booking.pre_total)
    /\ 250 - apply_points_redemption(5500, 250, 2).spent_points
           + points_round_half_up(5500).ret = 105

C2_Witness ==
    /\ pc = "Recorded"
    /\ booking.spent_points = 200
    /\ BalanceAtStart = 300
    /\ guests_points[Guest] = 100 + booking.earned
    /\ booking.earned > 0

\* C3: the ledger, the order history and the catalog are as they were at the
\* start of the transaction in every state before the commit step and whenever
\* the booking ends Aborted; a Recorded booking has applied the debit, the credit
\* and exactly one history append.
C3_AllOrNothing ==
    /\ pc \in PreCommit \cup {"Aborted"} => StoresNow = start
    /\ pc = "Recorded"
       => /\ guests_points =
                 Put(start.guests_points, Guest,
                     BalanceAtStart - booking.spent_points + booking.earned)
          /\ orders_by_guest =
                 Put(start.orders_by_guest, Guest,
                     Append(Get(start.orders_by_guest, Guest, <<>>), Summary))
          /\ apartments = start.apartments
          /\ items = start.items

C3_Witness ==
    /\ pc = "Recorded"
    /\ booking.spent_points > 0
    /\ booking.earned > 0
    /\ Len(orders_by_guest[Guest]) = Len(Get(start.orders_by_guest, Guest, <<>>)) + 1
    /\ guests_points # start.guests_points

\* C4: for every Recorded booking the points credited and the earned_points of
\* the stored summary are pointsFromAmount(pre_total), whatever was redeemed;
\* they do not follow final_total.
C4_EarnedFromPreTotal ==
    /\ pc = "Committing_record"
       => /\ last.op = "add_points" /\ ~last.raised /\ last.name = Guest
          /\ IsRoundHalfUp(last.amount, booking.pre_total)
    /\ pc = "Recorded"
       => /\ RecordedSummary.pre_total = booking.pre_total
          /\ IsRoundHalfUp(RecordedSummary.earned_points, RecordedSummary.pre_total)
          /\ IsRoundHalfUp(BalanceNow - (BalanceAtStart - RecordedSummary.redeemed_points),
                           RecordedSummary.pre_total)

C4_Witness ==
    /\ pc = "Recorded"
    /\ RecordedSummary.redeemed_points > 0
    /\ RecordedSummary.final_total < RecordedSummary.pre_total
    /\ ~IsRoundHalfUp(RecordedSummary.earned_points, RecordedSummary.final_total)
    /\ IsRoundHalfUp(RecordedSummary.earned_points, RecordedSummary.pre_total)

\* The guest had 100 points or more and a pre-total of $10 or more on reaching the
\* redemption step, and opted in.
RedeemAllowed ==
    booking.current_pts >= 100 /\ booking.pre_total >= 1000 /\ booking.opted_in

\* C5: a booking redeems points only if, at the Redeeming step, the balance is
\* >= 100, the pre-redemption total is >= $10 and the guest opts in; otherwise the
\* recorded order has redeemed_points = 0 and final_total = pre_total and the
\* ledger is not debited.
C5_RedeemOnlyWhenAllowed ==
    /\ pc \in {"Redeeming"} \cup PastRedeeming => booking.current_pts = BalanceAtStart
    /\ pc \in PastRedeeming
       => /\ booking.spent_points > 0 => RedeemAllowed
          /\ ~RedeemAllowed
             => booking.spent_points = 0 /\ booking.final_total = booking.pre_total
    /\ (pc = "Committing_add" /\ ~RedeemAllowed) => guests_points = start.guests_points
    /\ (pc = "Recorded" /\ ~RedeemAllowed)
       => /\ RecordedSummary.redeemed_points = 0
          /\ RecordedSummary.final_total = RecordedSummary.pre_total
          /\ BalanceNow = BalanceAtStart + booking.earned

C5_Witness ==
    /\ pc = "Recorded"
    /\ booking.current_pts >= 100
    /\ booking.pre_total < 1000
    /\ RecordedSummary.redeemed_points = 0
    /\ RecordedSummary.final_total = RecordedSummary.pre_total

\* The booking has room for its guests with the beds it added.
C10_Feasible ==
    pc \in PastCheckingCapacity
    => LET capacity == get_capacity(apartments, booking.apartment_id)
       IN  /\ booking.extra_bed_qty \in 0..2
           /\ capacity + 2 * booking.extra_bed_qty >= booking.num_guests
           /\ booking.num_guests <= capacity => booking.extra_bed_qty = 0

\* The order as the ordering step receives it.
C10_Seeded ==
    (pc = "CheckingCapacity" /\ pc' = "OrderingItems")
    => booking'.ordered_items =
           IF booking'.extra_bed_qty > 0
           THEN [iid \in {"extra_bed"} |-> booking'.extra_bed_qty * booking'.nights]
           ELSE EmptyDict

\* C10: a booking gets past CheckingCapacity only if capacity + 2 * bedsAdded >=
\* numGuests with bedsAdded in 0..2, bedsAdded = 0 whenever numGuests <= capacity;
\* the ordered items start with extra_bed at bedsAdded * nights when bedsAdded > 0
\* and start empty when bedsAdded = 0.
C10_PastCheckingCapacity == [](C10_Feasible) /\ [][C10_Seeded]_vars

C10_Witness ==
    /\ pc = "OrderingItems"
    /\ booking.num_guests = 7
    /\ booking.extra_bed_qty = 2
    /\ booking.nights = 2
    /\ booking.ordered_items = [iid \in {"extra_bed"} |-> 4]

\* The value of an order: quantity * price summed over the ids, taken one at a
\* time from a list of them.
RECURSIVE OrderValue(_, _, _)
OrderValue(ids, qty, price) ==
    IF ids = <<>> THEN 0
    ELSE (IF Head(ids) \in DOMAIN qty THEN qty[Head(ids)] * price[Head(ids)] ELSE 0)
         + OrderValue(Tail(ids), qty, price)

\* The ids of a dictionary, in some order.
RECURSIVE IdList(_)
IdList(ids) ==
    IF ids = {} THEN <<>>
    ELSE LET k == CHOOSE x \in ids : TRUE
         IN  <<k>> \o IdList(ids \ {k})

-----------------------------------------------------------------------------
(* The ledger's operations, one call at a time. *)

\* The name is empty or holds only whitespace.
IsBlank(name) == \A i \in 1..Len(name) : name[i] \in Whitespace

\* The balance a caller sees: 0 for a guest the ledger does not hold.
BalanceOf(gp, name) == IF name \in DOMAIN gp THEN gp[name] ELSE 0

\* C12: add_points is rejected exactly when the name is empty or whitespace-only
\* or earned < 0, spend_points exactly when amount < 0 or amount > the guest's
\* current balance (0 for an unknown guest); a rejected call leaves all balances
\* and the set of guests unchanged.
C12_RejectedExactly ==
    [][ /\ last'.op = "add_points"
           => (last'.raised <=> (IsBlank(last'.name) \/ last'.amount < 0))
        /\ last'.op = "spend_points"
           => (last'.raised
               <=> (last'.amount < 0
                    \/ last'.amount > BalanceOf(guests_points, last'.name)))
        /\ (last'.op \in {"add_points", "spend_points"} /\ last'.raised)
           => guests_points' = guests_points ]_vars

C12_Witness ==
    /\ last.op = "spend_points" /\ last.raised
    /\ last.name = Zed /\ last.amount = 50
    /\ Zed \notin DOMAIN guests_points
    /\ added[BlankName] = 0

\* C13: a guest gains a ledger entry only through an accepted add_points:
\* get_guest_points returns 0 for an unknown guest and creates nothing,
\* spend_points, accepted or rejected, for any amount (0 on an unknown guest
\* included), never adds a guest, and no operation removes an entry.
C13_EntryOnlyByAdd ==
    [][ /\ DOMAIN guests_points \subseteq DOMAIN guests_points'
        /\ DOMAIN guests_points' # DOMAIN guests_points
           => (last'.op = "add_points" /\ ~last'.raised)
        /\ (last'.op = "get_guest_points" /\ last'.name \notin DOMAIN guests_points)
           => last'.ret = 0 ]_vars

-----------------------------------------------------------------------------
(* The catalog. *)

IsLetter(ch) == ch \in RangeOf(UpperLetters) \cup RangeOf(LowerLetters) \cup OtherLower

\* U, one or more digits, a letter, then letters and digits.
MatchesIdPattern(id) ==
    \E k \in 2..(Len(id) - 1) :
        /\ id[1] = "U"
        /\ \A i \in 2..k : id[i] \in Digits
        /\ IsLetter(id[k + 1])
        /\ \A j \in (k + 2)..Len(id) : id[j] \in Digits \/ IsLetter(id[j])

\* x is a number greater than 0.
IsPositive(x) == x # NaN /\ x > 0

\* The records of a catalog other than the one stored under id.
OtherRecords(aps, id) == {aps[i] : i \in {j \in 1..Len(aps) : aps[j].id # id}}

\* C14: upsert_apartment(id, rate, capacity) is accepted exactly when id matches
\* the apartment-id pattern, rate > 0 and capacity > 0; a rejected call raises and
\* leaves the catalog unchanged; an accepted call changes only the record stored
\* under id, replacing rate and capacity together.
C14_UpsertApartment ==
    [][ last'.op = "upsert_apartment"
        => /\ ~last'.raised
              <=> (MatchesIdPattern(last'.id) /\ IsPositive(last'.rate)
                   /\ last'.capacity > 0)
           /\ last'.raised => apartments' = apartments
           /\ ~last'.raised
              => /\ OtherRecords(apartments', last'.id) = OtherRecords(apartments, last'.id)
                 /\ Cardinality({j \in 1..Len(apartments') :
                                     apartments'[j].id = last'.id}) = 1
                 /\ \E j \in 1..Len(apartments') :
                        apartments'[j] = [id |-> last'.id, rate |-> last'.rate,
                                          capacity |-> last'.capacity] ]_vars

\* The two characters are one letter, in either case, or the same character.
SameCharIgnoringCase(c, d) ==
    \/ c = d
    \/ \E k \in 1..Len(UpperLetters) :
           {c, d} = {UpperLetters[k], LowerLetters[k]}

EqualIgnoringCase(a, b) ==
    /\ Len(a) = Len(b)
    /\ \A i \in 1..Len(a) : SameCharIgnoringCase(a[i], b[i])

\* C15: after any sequence of accepted upsert_apartment calls ending with
\* upsert_apartment(id, rate, capacity), get_rate(x) = rate and
\* get_capacity(x) = capacity for id itself and for every x equal to id ignoring
\* letter case, the catalog holds exactly one record for id, and repeating the
\* identical call changes nothing.
C15_UpsertThenLookup ==
    (last.op = "upsert_apartment" /\ ~last.raised)
    => /\ \A x \in LookupIdInputs \cup CatalogIdInputs :
              EqualIgnoringCase(x, last.id)
              => /\ get_rate(apartments, x) = last.rate
                 /\ get_capacity(apartments, x) = last.capacity
       /\ Cardinality({j \in 1..Len(apartments) : apartments[j].id = last.id}) = 1
       /\ upsert_apartment(apartments, last.id, last.rate, last.capacity).aps
              = apartments

\* The places of a line where an entry ends or begins: before the first
\* character, at each comma, after the last character.
Breaks(line) == {0, Len(line) + 1} \cup {i \in 1..Len(line) : line[i] = ","}

\* The words of the entry that begins after break a.
EntryWords(line, a) ==
    LET b == CHOOSE x \in Breaks(line) :
                 x > a /\ \A y \in Breaks(line) : y > a => x <= y
    IN  SelectSeq(SubSeq(line, a + 1, b - 1), LAMBDA t : t # " ")

\* The breaks after which the line has an entry that is not blank.
Entries(line) ==
    {a \in Breaks(line) \ {Len(line) + 1} : EntryWords(line, a) # <<>>}

\* The entry is "id price" with a numeric price that is not <= 0.
GoodEntry(w) ==
    /\ Len(w) = 2
    /\ w[2] \in DOMAIN FloatWords
    /\ ~(FloatWords[w[2]] # NaN /\ FloatWords[w[2]] <= 0)

\* The entries of the line that name item id.
EntriesOf(line, id) == {a \in Entries(line) : EntryWords(line, a)[1] = id}

C17_CatalogPositive ==
    /\ \A i \in 1..Len(apartments) :
           IsPositive(apartments[i].rate) /\ apartments[i].capacity > 0
    /\ \A id \in DOMAIN items : IsPositive(items[id])
    /\ \A i \in 1..Len(APARTMENTS) :
           \E j \in 1..Len(apartments) : apartments[j].id = APARTMENTS[i].id
    /\ DOMAIN SUPPLEMENTARY_ITEMS \subseteq DOMAIN items

\* The stored apartments whose id equals id ignoring letter case.
SameIdIgnoringCase(id) ==
    {j \in 1..Len(apartments) : EqualIgnoringCase(apartments[j].id, id)}

C18_Result ==
    /\ last.op = "get_rate"
       => IF SameIdIgnoringCase(last.id) = {}
          THEN last.ret = 0
          ELSE \E j \in SameIdIgnoringCase(last.id) : last.ret = apartments[j].rate
    /\ last.op = "get_capacity"
       => IF SameIdIgnoringCase(last.id) = {}
          THEN last.ret = 0
          ELSE \E j \in SameIdIgnoringCase(last.id) : last.ret = apartments[j].capacity

C18_NoEffect ==
    last'.op \in {"get_rate", "get_capacity"} => stores' = stores

\* C18: get_rate(id) and get_capacity(id) return 0, never an error, for every id
\* (the empty string included) that matches no stored apartment ignoring letter
\* case, return the stored rate and capacity for every id that matches one, and
\* change no state.
C18_LookupOrZero == [](C18_Result) /\ [][C18_NoEffect]_vars

C18_Witness ==
    /\ last.op = "get_rate"
    /\ last.id = LowerU12swan
    /\ last.ret = 9500

-----------------------------------------------------------------------------
(* The order history and the values the stores hand out. *)

HistoryOf(obg, g) == IF g \in DOMAIN obg THEN obg[g] ELSE <<>>

IsPrefix(a, b) == Len(a) <= Len(b) /\ \A i \in 1..Len(a) : a[i] = b[i]

\* A record_order(g, s) step puts s at the end of g's history and changes nothing else.
C19_Appends ==
    last'.op = "record_order"
    => LET g == last'.guest
           old == HistoryOf(orders_by_guest, g)
           new == HistoryOf(orders_by_guest', g)
       IN  /\ Len(new) = Len(old) + 1
           /\ new[Len(new)] = last'.summary
           /\ IsPrefix(old, new)
           /\ DOMAIN orders_by_guest' = DOMAIN orders_by_guest \cup {g}
           /\ \A h \in DOMAIN orders_by_guest \ {g} :
                  orders_by_guest'[h] = orders_by_guest[h]
           /\ <<guests_points, apartments, items>>' = <<guests_points, apartments, items>>

\* No step removes, reorders or replaces an entry of a history.
C19_Keeps ==
    \A h \in DOMAIN orders_by_guest :
        /\ h \in DOMAIN orders_by_guest'
        /\ IsPrefix(orders_by_guest[h], orders_by_guest'[h])

\* get_orders_for_guest gives the guest's history, empty when there is none.
C19_Reads ==
    last.op = "get_orders_for_guest"
    => /\ last.ret = HistoryOf(orders_by_guest, last.guest)
       /\ last.guest \notin DOMAIN orders_by_guest => last.ret = <<>>

\* C19: record_order(g, s) appends s at the end of g's history and changes
\* nothing else: after any sequence of record_order calls get_orders_for_guest(g)
\* is the summaries recorded for g in call order, earlier entries are never
\* removed, reordered or replaced, other guests' histories are unchanged, and
\* the history of a guest with none is the empty list.
C19_AppendOnly == [](C19_Reads) /\ [][C19_Appends /\ C19_Keeps]_vars

C19_Witness ==
    /\ last.op = "get_orders_for_guest"
    /\ last.guest = Zed
    /\ last.ret = <<OrderA, OrderB, OrderA>>
    /\ Alyssa \notin DOMAIN orders_by_guest

\* C20: what list_apartments, list_items, get_all_guests and
\* get_orders_for_guest return are defensive copies: adding, removing or altering
\* anything in a returned map, list or record (a returned apartment record or
\* order summary included) never changes what later calls to the stores return.
C20_DefensiveCopies ==
    [][ (last.op \in ListingOps /\ last'.op = last.op /\ last'.guest = last.guest
         /\ last'.ret # last.ret)
        => stores' = stores ]_vars

-----------------------------------------------------------------------------
(* Validation of what is typed. *)

\* C21: _is_valid_apartment_id accepts a string exactly when it matches
\* ^U[0-9]+[A-Za-z][A-Za-z0-9]*$ (an uppercase U, one or more ASCII digits, one
\* ASCII letter, then any number of ASCII letters or digits) and rejects every
\* other string, over an alphabet that also holds lowercase u, punctuation,
\* whitespace and letters and digits outside ASCII.
C21_IdPattern ==
    calc.fn = "_is_valid_apartment_id" => (calc.ret <=> MatchesIdPattern(calc.id))

\* The call under evaluation ended in an error and returned nothing.
Raised(c) == "raised" \in DOMAIN c /\ c.raised

\* C22: every pricing function is pure and rejects out-of-domain numbers with an
\* error instead of returning a result: compute_total_cost for rate < 0 or
\* nights < 0, points_round_half_up for amount < 0, calc_items_subtotal for a
\* negative quantity or price, required_extra_beds for a negative guest count or
\* capacity, apply_points_redemption for a negative pre_total or guest_points.
C22_RejectsOutOfDomain ==
    /\ StoresNow = [guests_points |-> GUESTS_POINTS, apartments |-> APARTMENTS,
                    items |-> SUPPLEMENTARY_ITEMS, orders_by_guest |-> EmptyDict]
    /\ (calc.fn = "compute_total_cost" /\ (calc.rate < 0 \/ calc.nights < 0))
       => Raised(calc)
    /\ (calc.fn = "points_round_half_up" /\ calc.amount < 0) => Raised(calc)
    /\ (calc.fn = "calc_items_subtotal"
        /\ \/ \E k \in DOMAIN calc.items_with_qty : calc.items_with_qty[k] < 0
           \/ \E k \in DOMAIN calc.price_lookup : calc.price_lookup[k] < 0)
       => Raised(calc)
    /\ (calc.fn = "required_extra_beds" /\ (calc.num_guests < 0 \/ calc.capacity < 0))
       => Raised(calc)
    /\ (calc.fn = "apply_points_redemption"
        /\ (calc.pre_total < 0 \/ calc.guest_points < 0))
       => Raised(calc)

-----------------------------------------------------------------------------
(* The package's data_store. *)

\* The balance the global StorageManager holds for a guest, 0 for a guest it
\* does not hold.
PackageBalance(sm, name) ==
    IF name \in DOMAIN sm.guests_points THEN sm.guests_points[name] ELSE 0

\* C23: in the package, add_points(name, earned) returns the guest's previous
\* balance plus earned and stores it in the global StorageManager, so that
\* get_guest_points returns the same number and successive calls accumulate,
\* also for a guest who was not stored before.
C23_AddPointsStores ==
    [][ (last'.op = "data_store.add_points" /\ ~last'.raised /\ ncalls' = ncalls + 1)
        => /\ last'.ret = PackageBalance(storage_manager, last'.name) + last'.amount
           /\ PackageBalance(storage_manager', last'.name) = last'.ret
           /\ data_store_get_guest_points(storage_manager', last'.name) = last'.ret
      ]_vars

\* C24: in the package, get_rate(id) returns the nightly rate as a number (95.0
\* for U12swan, 106.7 for U209duck) for every stored id, whatever the case of
\* its letters, and 0.0 for every other id, the empty string included.
C24_RateIsNumber ==
    last.op = "data_store.get_rate"
    => LET aps == storage_manager.apartments
           stored == {i \in 1..Len(aps) : EqualIgnoringCase(aps[i].id, last.id)}
       IN  /\ last.ret.type = "float"
           /\ stored = {} => last.ret.value = 0
           /\ \A i \in stored : last.ret.value = aps[i].value.rate

-----------------------------------------------------------------------------
(* Dates. *)

AsciiDigits == <<"0", "1", "2", "3", "4", "5", "6", "7", "8", "9">>

IsNumeral(s) == \A i \in 1..Len(s) : \E k \in 1..10 : AsciiDigits[k] = s[i]

\* The number a string of ASCII digits writes.
RECURSIVE NumberOf(_)
NumberOf(s) ==
    IF s = <<>> THEN 0
    ELSE 10 * NumberOf(SubSeq(s, 1, Len(s) - 1))
         + (CHOOSE k \in 1..10 : AsciiDigits[k] = s[Len(s)]) - 1

DaysInMonth(m, y) ==
    IF m = 2
    THEN IF (y % 4 = 0 /\ y % 100 # 0) \/ y % 400 = 0 THEN 29 ELSE 28
    ELSE IF m \in {4, 6, 9, 11} THEN 30 ELSE 31

\* s is d/m/yyyy, 1-2 digits, 1-2 digits, 4 digits, and names a real day from 1900.
IsRealDate(s) ==
    \E i \in 2..3, j \in 4..6 :
        /\ Len(s) = j + 4
        /\ j - i \in 2..3
        /\ s[i] = "/"
        /\ s[j] = "/"
        /\ LET d_text == SubSeq(s, 1, i - 1)
               m_text == SubSeq(s, i + 1, j - 1)
               y_text == SubSeq(s, j + 1, j + 4)
           IN  /\ IsNumeral(d_text)
               /\ IsNumeral(m_text)
               /\ IsNumeral(y_text)
               /\ NumberOf(y_text) >= 1900
               /\ NumberOf(m_text) \in 1..12
               /\ NumberOf(d_text) \in 1..DaysInMonth(NumberOf(m_text), NumberOf(y_text))

\* C25: _validate_date accepts a string exactly when it has the form d/m/yyyy
\* with a day of 1 or 2 digits, a month of 1 or 2 digits and a year of exactly 4
\* digits that is >= 1900, and names a real calendar day (month 1..12, day within
\* the month's length, February having 29 days exactly in years divisible by 4
\* and not by 100, or divisible by 400).
C25_DateForm ==
    calc.fn = "_validate_date"
    => (~calc.raised /\ (calc.ret <=> IsRealDate(calc.date_str)))

-----------------------------------------------------------------------------
(* The ordering loop. *)

\* The subtotal of an ordered-items map at the prices of a catalog.
SubtotalOf(ordered, catalog) == OrderValue(IdList(DOMAIN ordered), ordered, catalog)

QuantityOf(ordered, iid) == IF iid \in DOMAIN ordered THEN ordered[iid] ELSE 0

\* A step that is one turn of the loop, and the map before and after it.
C26_Turns ==
    (pc = "OrderingItems" /\ pc' = "OrderingItems" /\ booking' # booking)
    => LET before == booking.ordered_items
           after == booking'.ordered_items
           iid == booking'.iid
           qty == booking'.qty
       IN  /\ qty > 0
           /\ booking'.confirm
              => /\ DOMAIN after = DOMAIN before \cup {iid}
                 /\ after[iid] = QuantityOf(before, iid) + qty
                 /\ \A k \in DOMAIN before \ {iid} : after[k] = before[k]
                 /\ booking'.tentative_total = SubtotalOf(after, booking'.items_catalog)
           /\ ~booking'.confirm => after = before

C26_Positive ==
    \A k \in DOMAIN booking.ordered_items : booking.ordered_items[k] > 0

\* C26: in the OrderingItems loop each confirmed (item, qty) adds qty to that
\* item's quantity in the ordered-items map (summing with any earlier quantity,
\* the pre-seeded extra_bed included), a declined item leaves the map unchanged,
\* the tentative subtotal shown before confirming equals the subtotal the map has
\* after confirming, and every quantity in the map stays > 0.
C26_OrderingLoop == [](C26_Positive) /\ [][C26_Turns]_vars

C26_Witness ==
    /\ pc = "OrderingItems"
    /\ booking.extra_bed_qty = 1
    /\ booking.nights = 1
    /\ booking.iid = "extra_bed"
    /\ booking.qty = 2
    /\ booking.confirm
    /\ booking.ordered_items = ("car_park" :> 1) @@ ("extra_bed" :> 3)
    /\ booking.tentative_total = 11500

-----------------------------------------------------------------------------
(* The recommended number of extra beds. *)

\* b extra beds give room for every guest.
RoomFor(num_guests, capacity, b) == capacity + 2 * b >= num_guests

\* C27: whenever some bed count b in 0..2 makes capacity + 2*b >= num_guests,
\* required_extra_beds(num_guests, capacity) returns the smallest such b; so a
\* guest who adds exactly the recommended number of beds is refused at the
\* re-check of line 557 only when num_guests > capacity + 4.
C27_SmallestBedCount ==
    calc.fn = "required_extra_beds"
    => /\ (\E b \in 0..2 : RoomFor(calc.num_guests, calc.capacity, b))
          => /\ calc.ret \in 0..2
             /\ RoomFor(calc.num_guests, calc.capacity, calc.ret)
             /\ \A b \in 0..2 :
                    RoomFor(calc.num_guests, calc.capacity, b) => calc.ret <= b
       /\ (calc.ret > 0 /\ StillInsufficient(calc.capacity, calc.ret, calc.num_guests))
          => calc.num_guests > calc.capacity + 4

C27_Witness ==
    /\ calc.fn = "required_extra_beds"
    /\ calc.num_guests = 6
    /\ calc.capacity = 3
    /\ calc.ret = 2
    /\ ~StillInsufficient(calc.capacity, calc.ret, calc.num_guests)

-----------------------------------------------------------------------------
(* The course of a booking. *)

InBooking ==
    pc \in {"CollectingInputs", "CheckingCapacity", "OrderingItems", "Redeeming",
            "Finalizing", "Committing_spend", "Committing_add", "Committing_record"}

Ended == pc \in {"Recorded", "Aborted"}

\* The place of a position in the order of the states; the three commits are
\* the way from Finalizing to Recorded.
Stage ==
    [CollectingInputs |-> 1, CheckingCapacity |-> 2, OrderingItems |-> 3,
     Redeeming |-> 4, Finalizing |-> 5, Committing_spend |-> 6, Committing_add |-> 7,
     Committing_record |-> 8, Recorded |-> 9]

C28_InOrder ==
    pc' # pc
    => /\ InBooking => (pc' = "Aborted" \/ (pc' # "menu" /\ Stage[pc'] = Stage[pc] + 1))
       /\ Ended => pc' = "menu"
       /\ pc = "menu" => pc' = "CollectingInputs"

\* C28: every booking transaction eventually ends in Recorded or Aborted and
\* never stays for ever in CollectingInputs, CheckingCapacity, OrderingItems or
\* Redeeming, provided every prompt eventually gets a value it accepts and the
\* guest eventually declines further items; the states are visited only in the
\* order CollectingInputs, CheckingCapacity, OrderingItems, Redeeming,
\* Finalizing, and Recorded and Aborted have no successor within the transaction.
C28_Terminates == (InBooking ~> Ended) /\ [][C28_InOrder]_vars

C28_Witness ==
    /\ pc = "Recorded"
    /\ booking.ordered_items = ("car_park" :> 1)
    /\ booking.spent_points = 100
    /\ booking.earned = 120

-----------------------------------------------------------------------------
(* What a booking leaves alone. *)

\* Two dictionaries hold the same keys with the same values, the key g apart.
SameButFor(g, now, before) ==
    /\ DOMAIN now \ {g} = DOMAIN before \ {g}
    /\ \A k \in DOMAIN before \ {g} : now[k] = before[k]

\* C29: a booking for guest g changes nothing but g's balance and g's order
\* history: every other guest's balance and history, the set of guests other
\* than g, the apartment catalog and the item catalog are the same after the
\* booking as before it, whether it ends Recorded or Aborted.
C29_Frame ==
    pc \in {"Recorded", "Aborted"}
    => /\ SameButFor(booking.guest_name, guests_points, start.guests_points)
       /\ SameButFor(booking.guest_name, orders_by_guest, start.orders_by_guest)
       /\ apartments = start.apartments
       /\ items = start.items

C29_Witness ==
    /\ pc = "Recorded"
    /\ booking.guest_name = Zed
    /\ Zed \notin DOMAIN start.guests_points
    /\ guests_points[Zed] = 95
    /\ Len(orders_by_guest[Zed]) = 1
    /\ guests_points[Luigi] = 32
    /\ \E i \in 1..Len(apartments) : apartments[i].id = U1a

-----------------------------------------------------------------------------
(* Bulk lines without an item. *)

\* C30: upsert_items_bulk rejects with a validation error every line that
\* contains no item pair, not only the empty or all-whitespace line but also a
\* line made only of commas and whitespace, so every accepted call stores at
\* least one item.
C30_NoPairRejected ==
    last.op = "upsert_items_bulk"
    => /\ Entries(last.line) = {} => last.raised
       /\ ~last.raised
          => \E a \in Entries(last.line) : EntryWords(last.line, a)[1] \in DOMAIN items

====
